---- MODULE Spec2Model ----
(***************************************************************************)
(* Data synchronisation layer of the traffic dashboard                     *)
(* (frontend/src/services/dataService.ts): the caching fetcher             *)
(* DataService.fetchWithRetry with its per-endpoint methods and            *)
(* loadAllData, and the polling hub RealTimeManager.                       *)
(*                                                                         *)
(* The JavaScript event loop is modelled as a discrete-event system: every *)
(* step is one run-to-completion task (a caller's synchronous code, the    *)
(* continuation after an awaited response, a timer callback).  Pending     *)
(* responses and timers carry the time at which they are due and are       *)
(* processed earliest first; the clock `now` is Date.now() in ms.          *)
(***************************************************************************)
EXTENDS Integers, Sequences, FiniteSets, TLC

VARIABLES
    now,        \* Date.now()
    cache,      \* DataService.cache : Map<endpoint, {data, timestamp}>
    calls,      \* the fetchWithRetry invocations, one per slot
    started,    \* number of DataService calls made by direct callers
    backend,    \* environment: how the remote API may answer each endpoint
    load,       \* the loadAllData() invocation
    fetched,    \* history: last successful network result per endpoint
    served,     \* history: every body the remote API answered with success
    intervals,  \* RealTimeManager.intervals : Map<key, timer handle>
    subscribers,\* RealTimeManager.subscribers : Map<key, Set<callback>>
    timers,     \* the interval timers the runtime holds (not yet cleared)
    handles,    \* the unsubscribe closures returned by subscribe
    ticking,    \* timer callbacks awaiting their DataService call
    delivered,  \* log of callback invocations
    errors,     \* log of console.error of the timer callbacks (line 233)
    ticks       \* number of timer callbacks run

dataVars == <<now, cache, calls, started, backend, load, fetched, served>>
hubVars ==
    <<intervals, subscribers, timers, handles, ticking, delivered, errors, ticks>>
vars == <<now, cache, calls, started, backend, load, fetched, served,
          intervals, subscribers, timers, handles, ticking, delivered, errors,
          ticks>>

----------------------------------------------------------------------------
(* Bounds of the exploration *)

MaxCalls == 2        \* direct DataService calls in one behaviour
MaxTime == 302000    \* idle time passes only while now stays below this
MaxLoads == 2        \* loadAllData invocations in one behaviour
MaxSubs == 2         \* subscribe calls in one behaviour
MaxTicks == 1        \* timer callbacks in one behaviour
MaxPolls == 2        \* timer callbacks in one behaviour of the polling hub

----------------------------------------------------------------------------
(* Program constants *)

cacheTimeout == 5 * 60 * 1000
DefaultRetries == 3
BackoffUnit == 1000

----------------------------------------------------------------------------
(* JSON values.  Every value is a record so that values of different       *)
(* shapes can be compared.                                                 *)

Undefined == [json |-> "undefined"]
EmptyArray == [json |-> "array", len |-> 0, rev |-> 0]
OfflineHealth == [json |-> "object", status |-> "offline"]

DefaultMetrics(t) ==
    [json |-> "metrics", totalPredictions |-> 0, accuracy |-> 0,
     avgResponseTime |-> 0, activeSegments |-> 0, citiesMonitored |-> 0,
     lastUpdated |-> t]

(* Endpoints are the strings handed to fetchWithRetry, kept as             *)
(* <<path, query string>>.                                                 *)
Url(path, query) == <<path, query>>

GetCitiesUrl == Url("/cities", <<>>)

PredictionsUrlNoCity(limit, city) == Url("/predictions", <<"limit", limit>>)

PredictionsUrl(limit, city) ==
    IF city # "" /\ city # "all"   \* city && city !== 'all' 
    THEN Url("/predictions", <<"limit", limit, "city", city>>)
    ELSE Url("/predictions", <<"limit", limit>>)

GetMetricsUrl == Url("/analytics/metrics", <<>>)
HistoricalUrl(hours) == Url("/analytics/historical", <<"hours", hours>>)
GetRealtimeTrafficUrl == Url("/traffic/realtime", <<>>)
GetHealthStatusUrl == Url("/health", <<>>)
GetModelStatusUrl == Url("/models/status", <<>>)

(* The response body the backend serves for an endpoint at revision d.     *)
Body(endpoint, d) ==
    IF endpoint[1] = "/analytics/metrics"
    THEN [json |-> "metrics", totalPredictions |-> d, accuracy |-> d,
          avgResponseTime |-> d, activeSegments |-> d, citiesMonitored |-> d,
          lastUpdated |-> d]
    ELSE IF endpoint[1] \in {"/health", "/models/status"}
    THEN [json |-> "object", status |-> "healthy", rev |-> d]
    ELSE [json |-> "array", len |-> d, rev |-> d]

----------------------------------------------------------------------------
(* The environment *)

Revisions == {1, 2}           \* payload revisions an endpoint may serve
Latencies == {100}      \* time from issuing a request to its answer
Outcomes == {"ok", "http500", "http404", "network", "parse"}

(* The error a failed attempt throws into the catch block (lines 71-76).   *)
ErrorOf(outcome) ==
    CASE outcome = "http500" -> "HTTP 500"
      [] outcome = "http404" -> "HTTP 404"
      [] outcome = "network" -> "TypeError"
      [] outcome = "parse" -> "SyntaxError"
      [] OTHER -> "none"

----------------------------------------------------------------------------
(* ResponseCache: the Map held by DataService *)

CacheHas(c, key) == key \in DOMAIN c

CacheGet(c, key) == IF key \in DOMAIN c THEN c[key] ELSE Undefined

CacheSetBackdated(c, key, data, t) ==
    [k \in DOMAIN c \cup {key} |->
        IF k = key THEN [json |-> "entry", data |-> data, timestamp |-> 0 - t]
        ELSE c[k]]

CacheSet(c, key, data, t) ==
    [k \in DOMAIN c \cup {key} |->
        IF k = key THEN [json |-> "entry", data |-> data, timestamp |-> t]
        ELSE c[k]]

IsFreshInverted(cached, t) ==
    cached # Undefined /\ t - cached.timestamp > cacheTimeout

IsFreshInclusive(cached, t) ==
    cached # Undefined /\ t - cached.timestamp <= cacheTimeout

IsFresh(cached, t) ==
    cached # Undefined /\ t - cached.timestamp < cacheTimeout

RECURSIVE Pow2(_)
Pow2(i) == IF i = 0 THEN 1 ELSE 2 * Pow2(i - 1)

BackoffDelayFlat(i) == BackoffUnit

BackoffDelay(i) == Pow2(i) * BackoffUnit

IsLastAttemptLate(i, retries) == i = retries

IsLastAttempt(i, retries) == i = retries - 1

(* getCacheInfo (lines 181-186).                                           *)
GetCacheInfo(c) == [keys |-> DOMAIN c, totalSize |-> Cardinality(DOMAIN c)]

----------------------------------------------------------------------------
(* One invocation of fetchWithRetry *)

IdleCall ==
    [pc |-> "idle", endpoint |-> Url("", <<>>), retries |-> 0, i |-> 0,
     cached |-> Undefined, due |-> 0, status |-> "none", value |-> Undefined,
     error |-> "none", attempts |-> 0, waits |-> <<>>, startedAt |-> 0,
     sent |-> 0, src |-> "none"]

(* The promise settled; the locals of the invocation go out of scope.      *)
Settled(call, status, value, error, src) ==
    [call EXCEPT !.pc = "done", !.i = 0, !.cached = Undefined, !.due = 0,
                 !.sent = 0, !.status = status, !.value = value, !.error = error,
                 !.src = src]

(* Lines 60-71: the synchronous prefix, up to the first await.             *)
BeginCall(c, t, endpoint, retries, latency) ==
    LET cached == CacheGet(c, endpoint)
        call == [IdleCall EXCEPT !.endpoint = endpoint, !.retries = retries,
                                 !.cached = cached, !.startedAt = t]
    IN  IF IsFresh(cached, t)
        THEN Settled(call, "fulfilled", cached.data, "none", "cache")
        ELSE IF ~(0 < retries)
        THEN Settled(call, "fulfilled", Undefined, "none", "none")
        ELSE [call EXCEPT !.pc = "fetching", !.due = t + latency,
                          !.sent = t, !.attempts = 1]

(* Lines 76-81: the attempt succeeded.                                     *)
CallSucceeded(call, data) == Settled(call, "fulfilled", data, "none", "network")

CallFailedNoFallback(call, err, t) ==
    IF IsLastAttempt(call.i, call.retries)
    THEN Settled(call, "rejected", Undefined, err, "none")
    ELSE [call EXCEPT !.pc = "backoff", !.due = t + BackoffDelay(call.i),
                      !.waits = Append(@, BackoffDelay(call.i))]

CallFailedSwallow(call, err, t) ==
    IF IsLastAttempt(call.i, call.retries)
    THEN IF call.cached # Undefined
         THEN Settled(call, "fulfilled", call.cached.data, "none", "stale")
         ELSE Settled(call, "fulfilled", Undefined, "none", "none")
    ELSE [call EXCEPT !.pc = "backoff", !.due = t + BackoffDelay(call.i),
                      !.waits = Append(@, BackoffDelay(call.i))]

CallFailedClientError(call, err, t) ==
    IF IsLastAttempt(call.i, call.retries) \/ err = "HTTP 404"
    THEN IF call.cached # Undefined
         THEN Settled(call, "fulfilled", call.cached.data, "none", "stale")
         ELSE Settled(call, "rejected", Undefined, err, "none")
    ELSE [call EXCEPT !.pc = "backoff", !.due = t + BackoffDelay(call.i),
                      !.waits = Append(@, BackoffDelay(call.i))]

(* Lines 82-95: the attempt threw.                                         *)
CallFailed(call, err, t) ==
    IF IsLastAttempt(call.i, call.retries)
    THEN IF call.cached # Undefined
         THEN Settled(call, "fulfilled", call.cached.data, "none", "stale")
         ELSE Settled(call, "rejected", Undefined, err, "none")
    ELSE [call EXCEPT !.pc = "backoff", !.due = t + BackoffDelay(call.i),
                      !.waits = Append(@, BackoffDelay(call.i))]

(* Lines 69-71: the backoff timer fired, i++ and the loop test; a loop     *)
(* that runs out falls off the end of the function (line 98).              *)
CallRetry(call, t, latency) ==
    IF call.i + 1 < call.retries
    THEN [call EXCEPT !.pc = "fetching", !.i = @ + 1, !.due = t + latency,
                      !.sent = t, !.attempts = @ + 1]
    ELSE Settled(call, "fulfilled", Undefined, "none", "none")

----------------------------------------------------------------------------
(* State *)

Callers == {"a", "b"}     \* UI consumers calling DataService directly
LoadFields ==
    {"cities", "predictions", "metrics", "historical", "realtime", "health"}
TickSlots == {"t1", "t2"}  \* timer callbacks awaiting DataService at once
Slots == Callers \cup LoadFields \cup TickSlots

StreamKeys == {"metrics", "layout"}
PollKeys == {"metrics", "health"}
AllKeys == StreamKeys \cup PollKeys
Callbacks == {"f", "g"}
Throwers == {"g"}          \* callbacks that may throw when invoked
Intervals == {5000, 15000}

Endpoints ==
    {GetCitiesUrl, PredictionsUrl("50", ""), PredictionsUrl("100", ""),
     GetMetricsUrl, HistoricalUrl("24"), GetRealtimeTrafficUrl,
     GetHealthStatusUrl}

Deltas == {cacheTimeout - 1000, cacheTimeout}    \* idle periods between events

AnyBehaviour == [outcomes |-> Outcomes, lat |-> Latencies, revs |-> Revisions]

(* The unsubscribe closures handed out.  A closure captures (key, callback) *)
(* and nothing else, so closures with the same pair are interchangeable:   *)
(* live counts those never invoked, spent holds the pairs of those invoked *)
(* at least once, made counts the subscribe calls, asked is the intervalMs *)
(* argument of the latest subscribe call.                                  *)
NoHandles ==
    [live |-> [p \in AllKeys \X Callbacks |-> 0], spent |-> {}, made |-> 0,
     asked |-> 0]

NoTick == [key |-> "", tick |-> 0, timer |-> 0]

IdleLoad == [pc |-> "idle", status |-> "none", result |-> Undefined, n |-> 0]

InitCommon ==
    /\ now = 0
    /\ cache = <<>>
    /\ calls = [s \in Slots |-> IdleCall]
    /\ started = 0
    /\ load = IdleLoad
    /\ fetched = <<>>
    /\ served = {}
    /\ intervals = <<>>
    /\ subscribers = <<>>
    /\ timers = {}
    /\ handles = NoHandles
    /\ ticking = [s \in TickSlots |-> NoTick]
    /\ delivered = <<>>
    /\ errors = <<>>
    /\ ticks = 0

Init ==
    /\ InitCommon
    /\ backend = [e \in Endpoints |-> AnyBehaviour]

(* Pending responses and timers, processed earliest first.                 *)
PendingDues ==
    {calls[s].due : s \in {x \in Slots : calls[x].pc \in {"fetching", "backoff"}}}
    \cup {t.due : t \in timers}

IsEarliest(t) == \A e \in PendingDues : t <= e

(* Promise.allSettled of loadAllData has all its results: its continuation *)
(* is a microtask, which runs before the event loop takes the next task.   *)
LoadReady ==
    /\ load.pc = "pending"
    /\ \A f \in LoadFields : calls[f].pc = "done"

(* The event loop may take the next task (a response, a timer).            *)
TaskTurn(t) == IsEarliest(t) /\ ~LoadReady

----------------------------------------------------------------------------
(* RealTimeManager: helpers *)

MapGet(m, key, default) == IF key \in DOMAIN m THEN m[key] ELSE default

MapSet(m, key, v) == [k \in DOMAIN m \cup {key} |-> IF k = key THEN v ELSE m[k]]

MapDeleteKeep(m, key) == m

MapDelete(m, key) == [k \in DOMAIN m \ {key} |-> m[k]]

Range(q) == {q[n] : n \in 1..Len(q)}

(* Set.add and Set.delete; a JavaScript Set iterates in insertion order.   *)
SetAdd(q, x) == IF x \in Range(q) THEN q ELSE Append(q, x)

SetDeleteNone(q, x) == q

SetDelete(q, x) == SelectSeq(q, LAMBDA y : y # x)

(* The switch of lines 210-225.                                            *)
Recognised == {"predictions", "metrics", "realtime", "health"}

TickEndpointMetrics(key) == GetMetricsUrl

TickEndpoint(key) ==
    CASE key = "predictions" -> PredictionsUrl("50", "")
      [] key = "metrics" -> GetMetricsUrl
      [] key = "realtime" -> GetRealtimeTrafficUrl
      [] key = "health" -> GetHealthStatusUrl

(* Lines 228-231: subs.forEach(cb => cb(data)).  The callbacks actually    *)
(* invoked: all of them, or those up to one that throws.                   *)
Invoked(subs) ==
    {subs} \cup {SubSeq(subs, 1, n) : n \in {m \in 1..Len(subs) : subs[m] \in Throwers}}

DeliveryLog(invoked, key, tick, data) ==
    [n \in 1..Len(invoked) |->
        [cb |-> invoked[n], key |-> key, tick |-> tick, value |-> data]]

(* Line 228: the subscriber set the timer callback reads after its await.  *)
CurrentSubs(key) == MapGet(subscribers, key, <<>>)

(* Whether forEach ended by a throw, given the callbacks it invoked.       *)
Threw(invoked, subs) ==
    IF invoked # subs THEN {TRUE}
    ELSE IF Len(subs) > 0 /\ subs[Len(subs)] \in Throwers THEN {TRUE, FALSE}
    ELSE {FALSE}

(* Line 233: console.error in the catch of the timer callback.             *)
ErrorLog(key, tick, error) == <<[key |-> key, tick |-> tick, error |-> error]>>

NotifyDespiteError(key, tick, call) ==
    /\ delivered' = delivered
          \o DeliveryLog(CurrentSubs(key), key, tick, call.value)
    /\ errors' = errors

(* Lines 227-234: what the timer callback does with the settled call.      *)
Notify(key, tick, call) ==
    IF call.status = "fulfilled"
    THEN \E invoked \in Invoked(CurrentSubs(key)) :
         \E threw \in Threw(invoked, CurrentSubs(key)) :
            /\ delivered' = delivered \o DeliveryLog(invoked, key, tick, call.value)
            /\ errors' = IF threw THEN errors \o ErrorLog(key, tick, "callback")
                                  ELSE errors
    ELSE /\ delivered' = delivered
         /\ errors' = errors \o ErrorLog(key, tick, call.error)

(* The continuation of whoever awaits the call of slot s.                  *)
Continue(s, call) ==
    IF s \in TickSlots /\ call.pc = "done"
    THEN /\ Notify(ticking[s].key, ticking[s].tick, call)
         /\ calls' = [calls EXCEPT ![s] = IdleCall]
         /\ ticking' = [ticking EXCEPT ![s] = NoTick]
    ELSE /\ calls' = [calls EXCEPT ![s] = call]
         /\ UNCHANGED <<ticking, delivered, errors>>

----------------------------------------------------------------------------
(* DataService *)

(* A direct caller invokes fetchWithRetry(endpoint) (lines 101-129).       *)
Invoke(s, endpoint) ==
    /\ s \in Callers
    /\ calls[s].pc \in {"idle", "done"}
    /\ started < MaxCalls
    /\ \E latency \in backend[endpoint].lat :
          calls' = [calls EXCEPT
                      ![s] = BeginCall(cache, now, endpoint, DefaultRetries, latency)]
    /\ started' = started + 1
    /\ UNCHANGED <<now, cache, backend, load, fetched, served>>
    /\ UNCHANGED hubVars

GetPredictions(s, limit, city) == Invoke(s, PredictionsUrl(limit, city))

GetMetrics(s) == Invoke(s, GetMetricsUrl)

GetHistoricalData(s, hours) == Invoke(s, HistoricalUrl(hours))

(* The awaited response arrived and parsed (lines 71-81).                  *)
ResponseOk(s) ==
    /\ calls[s].pc = "fetching"
    /\ TaskTurn(calls[s].due)
    /\ "ok" \in backend[calls[s].endpoint].outcomes
    /\ now' = calls[s].due
    /\ \E d \in backend[calls[s].endpoint].revs :
          LET data == Body(calls[s].endpoint, d) IN
          /\ cache' = CacheSet(cache, calls[s].endpoint, data, now')
          /\ fetched' = MapSet(fetched, calls[s].endpoint,
                  [value |-> CallSucceeded(calls[s], data).value, at |-> now',
                   issued |-> calls[s].sent])
          /\ served' = served \cup {[endpoint |-> calls[s].endpoint, value |-> data]}
          /\ Continue(s, CallSucceeded(calls[s], data))
    /\ UNCHANGED <<started, backend, load>>
    /\ UNCHANGED <<intervals, subscribers, timers, handles, ticks>>

ResponseFailRefresh(s) ==
    /\ calls[s].pc = "fetching"
    /\ TaskTurn(calls[s].due)
    /\ now' = calls[s].due
    /\ \E o \in backend[calls[s].endpoint].outcomes \ {"ok"} :
          LET call == CallFailed(calls[s], ErrorOf(o), now') IN
          /\ Continue(s, call)
          /\ cache' = IF call.src = "stale"
                      THEN CacheSet(cache, call.endpoint, call.value, now')
                      ELSE cache
    /\ UNCHANGED <<started, backend, load, fetched, served>>
    /\ UNCHANGED <<intervals, subscribers, timers, handles, ticks>>

(* The attempt threw: fetch rejected, !response.ok, or json() rejected     *)
(* (lines 71-76, 82-95).                                                   *)
ResponseFail(s) ==
    /\ calls[s].pc = "fetching"
    /\ TaskTurn(calls[s].due)
    /\ now' = calls[s].due
    /\ \E o \in backend[calls[s].endpoint].outcomes \ {"ok"} :
          Continue(s, CallFailed(calls[s], ErrorOf(o), now'))
    /\ UNCHANGED <<cache, started, backend, load, fetched, served>>
    /\ UNCHANGED <<intervals, subscribers, timers, handles, ticks>>

(* The backoff timer of line 95 fired.                                     *)
BackoffElapsed(s) ==
    /\ calls[s].pc = "backoff"
    /\ TaskTurn(calls[s].due)
    /\ now' = calls[s].due
    /\ \E latency \in backend[calls[s].endpoint].lat :
          Continue(s, CallRetry(calls[s], now', latency))
    /\ UNCHANGED <<cache, started, backend, load, fetched, served>>
    /\ UNCHANGED <<intervals, subscribers, timers, handles, ticks>>

ClearCacheExpired ==
    /\ cache # <<>>
    /\ cache' = [k \in {x \in DOMAIN cache : IsFresh(cache[x], now)} |-> cache[k]]
    /\ fetched' = <<>>
    /\ UNCHANGED <<now, calls, started, backend, load, served>>
    /\ UNCHANGED hubVars

(* clearCache (lines 176-178).                                             *)
ClearCache ==
    /\ cache # <<>>
    /\ cache' = <<>>
    /\ fetched' = <<>>
    /\ UNCHANGED <<now, calls, started, backend, load, served>>
    /\ UNCHANGED hubVars

(* Time passes with nothing due.                                           *)
Advance(d) ==
    /\ now + d <= MaxTime
    /\ ~LoadReady
    /\ \A e \in PendingDues : now + d <= e
    /\ now' = now + d
    /\ UNCHANGED <<cache, calls, started, backend, load, fetched, served>>
    /\ UNCHANGED hubVars

----------------------------------------------------------------------------
(* loadAllData (lines 136-173) *)

LoadEndpoint(f) ==
    CASE f = "cities" -> GetCitiesUrl
      [] f = "predictions" -> PredictionsUrl("100", "")
      [] f = "metrics" -> GetMetricsUrl
      [] f = "historical" -> HistoricalUrl("24")
      [] f = "realtime" -> GetRealtimeTrafficUrl
      [] f = "health" -> GetHealthStatusUrl

(* Lines 155-167: the value a field takes when its call rejected.          *)
LoadDefault(f, t) ==
    CASE f = "metrics" -> DefaultMetrics(t)
      [] f = "health" -> OfflineHealth
      [] OTHER -> EmptyArray

(* Lines 154-168: one field of the returned object.                        *)
LoadField(call, f, t) ==
    IF call.status = "fulfilled" THEN call.value ELSE LoadDefault(f, t)

LoadStatusAll(cs) ==
    IF \E f \in LoadFields : cs[f].status = "rejected"
    THEN "rejected" ELSE "fulfilled"

(* Promise.allSettled never rejects, so the catch of line 169 is dead.     *)
LoadStatus(cs) == "fulfilled"

LoadAllDataOneByOne ==
    /\ load.pc = "idle"
    /\ load.n < MaxLoads
    /\ \E latency \in backend[GetCitiesUrl].lat :
          calls' = [calls EXCEPT
                      !["cities"] = BeginCall(cache, now, GetCitiesUrl,
                                              DefaultRetries, latency)]
    /\ load' = [load EXCEPT !.pc = "pending", !.n = @ + 1]
    /\ UNCHANGED <<now, cache, started, backend, fetched, served>>
    /\ UNCHANGED hubVars

(* Lines 145-152: the six calls are made while building the array, each    *)
(* running its synchronous prefix; only then does loadAllData await.       *)
LoadAllData ==
    /\ load.pc = "idle"
    /\ load.n < MaxLoads
    /\ \E latency \in [LoadFields -> Latencies] :
          /\ \A f \in LoadFields : latency[f] \in backend[LoadEndpoint(f)].lat
          /\ calls' = [s \in Slots |->
                IF s \in LoadFields
                THEN BeginCall(cache, now, LoadEndpoint(s), DefaultRetries,
                               latency[s])
                ELSE calls[s]]
    /\ load' = [load EXCEPT !.pc = "pending", !.n = @ + 1]
    /\ UNCHANGED <<now, cache, started, backend, fetched, served>>
    /\ UNCHANGED hubVars

(* Lines 154-168: all six promises settled, the result is built.           *)
LoadSettled ==
    /\ LoadReady
    /\ load' = [load EXCEPT
                  !.pc = "done", !.status = LoadStatus(calls),
                  !.result = [f \in LoadFields |-> LoadField(calls[f], f, now)]]
    /\ UNCHANGED <<now, cache, calls, started, backend, fetched, served>>
    /\ UNCHANGED hubVars

(* The caller takes the result; loadAllData may be called again.           *)
LoadReturn ==
    /\ load.pc = "done"
    /\ load' = [IdleLoad EXCEPT !.n = load.n]
    /\ calls' = [s \in Slots |-> IF s \in LoadFields THEN IdleCall ELSE calls[s]]
    /\ UNCHANGED <<now, cache, started, backend, fetched, served>>
    /\ UNCHANGED hubVars

----------------------------------------------------------------------------
(* RealTimeManager (lines 193-265) *)

NeedsTimerAlways(key) == TRUE

(* Line 205: is a timer to be started?                                     *)
NeedsTimer(key) == key \notin DOMAIN intervals

NewTimerId == handles.made + 1

(* subscribe (lines 197-257).                                              *)
Subscribe(key, cb, every) ==
    /\ handles.made < MaxSubs
    /\ subscribers' = MapSet(subscribers, key,
                             SetAdd(MapGet(subscribers, key, <<>>), cb))
    /\ IF NeedsTimer(key)
       THEN /\ timers' = timers \cup
                  {[id |-> NewTimerId, key |-> key, every |-> every,
                    due |-> now + every]}
            /\ intervals' = MapSet(intervals, key, NewTimerId)
       ELSE UNCHANGED <<timers, intervals>>
    /\ handles' = [handles EXCEPT !.live[<<key, cb>>] = @ + 1, !.made = @ + 1,
                                  !.asked = every]
    /\ UNCHANGED <<ticking, delivered, errors, ticks>>
    /\ UNCHANGED dataVars

ClearIntervalNone(ts, id) == ts

ClearIntervalEvery(ts, id) == {}

(* clearInterval(handle).                                                  *)
ClearInterval(ts, id) == {t \in ts : t.id # id}

(* The closure returned by subscribe (lines 241-256).                      *)
Unsubscribe(key, cb, again) ==
    /\ IF again THEN <<key, cb>> \in handles.spent
                ELSE handles.live[<<key, cb>>] > 0
    /\ IF key \in DOMAIN subscribers
       THEN LET subs == SetDelete(subscribers[key], cb) IN
            IF Len(subs) = 0
            THEN /\ IF key \in DOMAIN intervals /\ intervals[key] # 0
                    THEN /\ timers' = ClearInterval(timers, intervals[key])
                         /\ intervals' = MapDelete(intervals, key)
                    ELSE UNCHANGED <<timers, intervals>>
                 /\ subscribers' = MapDelete(subscribers, key)
            ELSE /\ subscribers' = MapSet(subscribers, key, subs)
                 /\ UNCHANGED <<timers, intervals>>
       ELSE UNCHANGED <<subscribers, timers, intervals>>
    /\ handles' = IF again THEN handles
                  ELSE [handles EXCEPT !.live[<<key, cb>>] = @ - 1,
                                       !.spent = @ \cup {<<key, cb>>}]
    /\ UNCHANGED <<ticking, delivered, errors, ticks>>
    /\ UNCHANGED dataVars

ClearAllNone(ts, registry) == ts

(* Line 261: this.intervals.forEach(interval => clearInterval(interval)).  *)
ClearAll(ts, registry) ==
    {t \in ts : \A k \in DOMAIN registry : registry[k] # t.id}

(* stopAll (lines 260-264).                                                *)
StopAll ==
    /\ timers' = ClearAll(timers, intervals)
    /\ intervals' = <<>>
    /\ subscribers' = <<>>
    /\ UNCHANGED <<handles, ticking, delivered, errors, ticks>>
    /\ UNCHANGED dataVars

TimerFiresDefaultBreak(t) ==
    /\ t \in timers
    /\ TaskTurn(t.due)
    /\ now' = t.due
    /\ ticks' = ticks + 1
    /\ timers' = (timers \ {t}) \cup {[t EXCEPT !.due = @ + t.every]}
    /\ IF t.key \notin Recognised
       THEN /\ Notify(t.key, ticks',
                      Settled(IdleCall, "fulfilled", Undefined, "none", "none"))
            /\ UNCHANGED <<calls, ticking>>
       ELSE /\ \E s \in TickSlots : calls[s].pc = "idle"
            /\ LET s == CHOOSE x \in TickSlots : calls[x].pc = "idle" IN
               \E latency \in backend[TickEndpoint(t.key)].lat :
                  LET call == BeginCall(cache, now', TickEndpoint(t.key),
                                        DefaultRetries, latency)
                  IN  IF call.pc = "done"
                      THEN /\ Notify(t.key, ticks', call)
                           /\ UNCHANGED <<calls, ticking>>
                      ELSE /\ calls' = [calls EXCEPT ![s] = call]
                           /\ ticking' = [ticking EXCEPT ![s] =
                                 [key |-> t.key, tick |-> ticks', timer |-> t.id]]
                           /\ UNCHANGED <<delivered, errors>>
    /\ UNCHANGED <<cache, started, backend, load, fetched, served>>
    /\ UNCHANGED <<intervals, subscribers, handles>>

(* The timer callback (lines 206-235), up to its await.                    *)
TimerFires(t) ==
    /\ t \in timers
    /\ TaskTurn(t.due)
    /\ now' = t.due
    /\ ticks' = ticks + 1
    /\ timers' = (timers \ {t}) \cup {[t EXCEPT !.due = @ + t.every]}
    /\ IF t.key \notin Recognised
       THEN UNCHANGED <<calls, ticking, delivered, errors>>
       ELSE /\ \E s \in TickSlots : calls[s].pc = "idle"
            /\ LET s == CHOOSE x \in TickSlots : calls[x].pc = "idle" IN
               \E latency \in backend[TickEndpoint(t.key)].lat :
                  LET call == BeginCall(cache, now', TickEndpoint(t.key),
                                        DefaultRetries, latency)
                  IN  IF call.pc = "done"
                      THEN /\ Notify(t.key, ticks', call)
                           /\ UNCHANGED <<calls, ticking>>
                      ELSE /\ calls' = [calls EXCEPT ![s] = call]
                           /\ ticking' = [ticking EXCEPT ![s] =
                                 [key |-> t.key, tick |-> ticks', timer |-> t.id]]
                           /\ UNCHANGED <<delivered, errors>>
    /\ UNCHANGED <<cache, started, backend, load, fetched, served>>
    /\ UNCHANGED <<intervals, subscribers, handles>>

Tick(t) == ticks < MaxTicks /\ TimerFires(t)

Poll(t) == ticks < MaxPolls /\ TimerFires(t)

Next ==
    \/ \E s \in Callers, city \in {"", "all"} : GetPredictions(s, "50", city)
    \/ \E s \in Callers : GetMetrics(s)
    \/ \E s \in Slots : ResponseOk(s)
    \/ \E s \in Slots : ResponseFail(s)
    \/ \E s \in Slots : BackoffElapsed(s)
    \/ ClearCache
    \/ \E d \in Deltas : Advance(d)

Spec == Init /\ [][Next]_vars

(* loadAllData against a backend of which any subset of endpoints is down. *)
EndpointUp == [outcomes |-> {"ok"}, lat |-> Latencies, revs |-> {1}]
EndpointDown == [outcomes |-> {"http500"}, lat |-> Latencies, revs |-> {1}]

InitLoad ==
    /\ InitCommon
    /\ backend \in [Endpoints -> {EndpointUp, EndpointDown}]
    /\ backend[PredictionsUrl("50", "")] = EndpointUp

(* The remote API loses an endpoint between two loads.                     *)
Outage(e) ==
    /\ load.pc = "idle"
    /\ load.n > 0
    /\ backend[e] = EndpointUp
    /\ backend' = [backend EXCEPT ![e] = EndpointDown]
    /\ UNCHANGED <<now, cache, calls, started, load, fetched, served>>
    /\ UNCHANGED hubVars

NextLoad ==
    \/ LoadAllData
    \/ LoadSettled
    \/ LoadReturn
    \/ \E s \in LoadFields : ResponseOk(s)
    \/ \E s \in LoadFields : ResponseFail(s)
    \/ \E s \in LoadFields : BackoffElapsed(s)
    \/ \E d \in Deltas : Advance(d)
    \/ \E f \in LoadFields : Outage(LoadEndpoint(f))

SpecLoad == InitLoad /\ [][NextLoad]_vars

(* A backend that answers each request with success or with HTTP 500.      *)
EndpointFlaky == [outcomes |-> {"ok", "http500"}, lat |-> Latencies, revs |-> {1}]

InitHub ==
    /\ InitCommon
    /\ backend = [e \in Endpoints |-> EndpointFlaky]

(* Direct callers against a backend whose only failure is HTTP 500.        *)
SpecOutage == InitHub /\ [][Next]_vars

(* Components subscribing to and leaving the hub, over a healthy backend.  *)
InitSteady ==
    /\ InitCommon
    /\ backend = [e \in Endpoints |-> EndpointUp]

NextHub ==
    \/ \E k \in StreamKeys, cb \in Callbacks, every \in Intervals :
          Subscribe(k, cb, every)
    \/ \E k \in StreamKeys, cb \in Callbacks, again \in BOOLEAN :
          Unsubscribe(k, cb, again)
    \/ StopAll
    \/ \E t \in timers : Tick(t)
    \/ \E s \in TickSlots : ResponseOk(s)

SpecHub == InitSteady /\ [][NextHub]_vars

(* Direct callers asking for differently parameterised data.               *)
Limits == {"50", "100"}
Cities == {"", "all", "nyc", "sf"}
Hours == {"24", "48"}

KeyEndpoints ==
    {PredictionsUrl(l, c) : l \in Limits, c \in Cities}
    \cup {HistoricalUrl(h) : h \in Hours}

InitKeys ==
    /\ InitCommon
    /\ backend = [e \in KeyEndpoints |-> EndpointUp]

NextKeys ==
    \/ \E s \in Callers, l \in Limits, c \in Cities : GetPredictions(s, l, c)
    \/ \E s \in Callers, h \in Hours : GetHistoricalData(s, h)
    \/ \E s \in Callers : ResponseOk(s)

SpecKeys == InitKeys /\ [][NextKeys]_vars

(* The hub polling a flaky backend for components that subscribed when    *)
(* the page was mounted, at a fast or at a slow rate.                      *)
PollIntervals == {5000, 400000}

Mount(key, cb, every) == ticks = 0 /\ Subscribe(key, cb, every)

NextPoll ==
    \/ \E k \in PollKeys, cb \in Callbacks, every \in PollIntervals :
          Mount(k, cb, every)
    \/ StopAll
    \/ \E t \in timers : Poll(t)
    \/ \E s \in TickSlots : ResponseOk(s)
    \/ \E s \in TickSlots : ResponseFail(s)
    \/ \E s \in TickSlots : BackoffElapsed(s)

SpecPoll == InitHub /\ [][NextPoll]_vars

(* Streams whose interval is shorter than the retry backoff of one call:   *)
(* setInterval (line 206) fires every intervalMs whether or not the        *)
(* previous callback has finished awaiting.                                *)
FastIntervals == {1000, 5000}

NextFast ==
    \/ \E k \in PollKeys, cb \in Callbacks, every \in FastIntervals :
          Mount(k, cb, every)
    \/ StopAll
    \/ \E t \in timers : Poll(t)
    \/ \E s \in TickSlots : ResponseOk(s)
    \/ \E s \in TickSlots : ResponseFail(s)
    \/ \E s \in TickSlots : BackoffElapsed(s)

SpecFast == InitHub /\ [][NextFast]_vars

(* Requests whose answers take different times: await fetch (line 71)      *)
(* resumes whenever the response arrives, so a request issued later may    *)
(* be answered first.                                                      *)
RaceLatencies == {100, 300}

Gaps == {50}      \* time between two consumers' calls

EndpointSlow == [outcomes |-> {"ok"}, lat |-> RaceLatencies, revs |-> {1, 2}]

InitRace ==
    /\ InitCommon
    /\ backend = [e \in Endpoints |-> EndpointSlow]

(* Time passes while a request is in flight.                               *)
Overlap(d) == PendingDues # {} /\ Advance(d)

NextRace ==
    \/ \E s \in Callers, city \in {"", "all"} : GetPredictions(s, "50", city)
    \/ \E s \in Callers : GetMetrics(s)
    \/ \E s \in Callers : ResponseOk(s)
    \/ \E d \in Gaps : Overlap(d)

SpecRace == InitRace /\ [][NextRace]_vars

(* Termination.  The dashboard calls loadAllData and getMetrics against a  *)
(* backend whose metrics and health endpoints may fail any attempt.  The   *)
(* runtime is fair to its tasks:                                           *)
(* every request issued is eventually answered, with success or with an    *)
(* error (line 71), every backoff timer eventually fires (line 95), and    *)
(* the continuation of Promise.allSettled runs once all six have settled   *)
(* (line 145).                                                             *)
LiveSlots == Callers \cup LoadFields

FlakyEndpoints == {GetMetricsUrl, GetHealthStatusUrl}

InitLive ==
    /\ InitCommon
    /\ backend = [e \in Endpoints |->
                    IF e \in FlakyEndpoints THEN EndpointFlaky ELSE EndpointUp]

Answered(s) == ResponseOk(s) \/ ResponseFail(s)

(* What the dashboard does when it mounts: one loadAllData, one direct     *)
(* call.                                                                   *)
FirstCall(s) == started = 0 /\ GetMetrics(s)

FirstLoad == load.n = 0 /\ LoadAllData

NextLive ==
    \/ \E s \in Callers : FirstCall(s)
    \/ FirstLoad
    \/ LoadSettled
    \/ LoadReturn
    \/ \E s \in LiveSlots : Answered(s)
    \/ \E s \in LiveSlots : BackoffElapsed(s)

Fairness ==
    /\ \A s \in LiveSlots : WF_vars(Answered(s))
    /\ \A s \in LiveSlots : WF_vars(BackoffElapsed(s))
    /\ WF_vars(LoadSettled)

SpecLive == InitLive /\ [][NextLive]_vars /\ Fairness

----------------------------------------------------------------------------
(* Properties of DataService.fetchWithRetry *)

(* The attempt in flight for slot s ends the call in this step without a   *)
(* successful response: its last attempt failed.                           *)
LastAttemptFailed(s) ==
    /\ calls[s].pc = "fetching"
    /\ calls'[s].pc = "done"
    /\ calls'[s].src # "network"

FailureErrors == {"HTTP 500", "HTTP 404", "TypeError", "SyntaxError"}

(* C1: when the latest successful network response for a key (not followed *)
(* by clearCache) was returned at time t, a call for that key that starts  *)
(* at now with now - t < 5 minutes settles at once with the value that     *)
(* response's call returned and issues no network request.                 *)
C1_SequentialCacheHit ==
    [][\A s \in Callers, e \in Endpoints :
          (Invoke(s, e) /\ e \in DOMAIN fetched
                        /\ now - fetched[e].at < 300000)
          => /\ calls'[s].pc = "done"
             /\ calls'[s].status = "fulfilled"
             /\ calls'[s].value = fetched[e].value
             /\ calls'[s].attempts = 0]_vars

C1_Witness ==
    \E s \in Callers :
        /\ calls[s].pc = "done"
        /\ calls[s].src = "cache"
        /\ calls[s].attempts = 0
        /\ calls[s].endpoint \in DOMAIN fetched
        /\ calls[s].value = fetched[calls[s].endpoint].value

(* C2: two calls for the same endpoint started within the cache timeout of *)
(* each other issue at most one network request between them and resolve   *)
(* to equal values, whatever the interleaving.                             *)
C2_AtMostOneRequest ==
    \A a \in Callers, b \in Callers :
        (/\ a # b
         /\ calls[a].pc = "done" /\ calls[b].pc = "done"
         /\ calls[a].endpoint = calls[b].endpoint
         /\ calls[a].startedAt - calls[b].startedAt < cacheTimeout
         /\ calls[b].startedAt - calls[a].startedAt < cacheTimeout)
        => /\ calls[a].attempts + calls[b].attempts <= 1
           /\ (calls[a].status = "fulfilled" /\ calls[b].status = "fulfilled"
                  => calls[a].value = calls[b].value)

(* C3: a call that found a cache entry for its key when it started (of any *)
(* age) and whose every attempt failed resolves with that entry's value.   *)
C3_StaleOnError ==
    [][\A s \in Callers :
          (LastAttemptFailed(s) /\ calls[s].cached # Undefined)
          => /\ calls'[s].status = "fulfilled"
             /\ calls'[s].value = calls[s].cached.data
             /\ calls'[s].attempts = 3]_vars

C3_Witness ==
    \E s \in Callers :
        /\ calls[s].pc = "done"
        /\ calls[s].src = "stale"
        /\ calls[s].status = "fulfilled"
        /\ calls[s].attempts = 3

(* C4: a call rejects only if all its attempts failed and, at the moment   *)
(* it rejects, the cache holds no entry for its key.                       *)
C4_RejectsOnlyOnEmptyCache ==
    [][\A s \in Callers :
          (calls[s].pc = "fetching" /\ calls'[s].pc = "done"
                                    /\ calls'[s].status = "rejected")
          => /\ calls[s].attempts = calls[s].retries
             /\ calls[s].endpoint \notin DOMAIN cache']_vars

(* C5: a call that found no cache entry for its key and whose every        *)
(* attempt failed rejects with the error of a failed attempt, and writes   *)
(* nothing to the cache.                                                   *)
C5_RejectsWithoutCache ==
    [][\A s \in Callers :
          (LastAttemptFailed(s) /\ calls[s].cached = Undefined)
          => /\ calls'[s].status = "rejected"
             /\ calls'[s].error \in FailureErrors
             /\ calls'[s].attempts = 3
             /\ cache' = cache]_vars

C5_Witness ==
    \E s \in Callers :
        /\ calls[s].pc = "done"
        /\ calls[s].status = "rejected"
        /\ calls[s].error \in FailureErrors
        /\ calls[s].endpoint \notin DOMAIN cache

(* C6 as stated: after three HTTP 500 answers a fourth attempt is made, so *)
(* no call rejects after only three attempts.                              *)
C6_FourthAttemptMade ==
    \A s \in Callers :
        (calls[s].pc = "done" /\ calls[s].status = "rejected"
                              /\ calls[s].retries = 3)
        => calls[s].attempts >= 4

(* C6 amended: the third attempt is the last one.  With an empty cache, a  *)
(* successful third answer (after two HTTP 500) is returned to the caller, *)
(* and a third HTTP 500 rejects the call with that error.                  *)
C6_ThirdAttemptIsLast ==
    [][\A s \in Callers :
          (calls[s].pc = "fetching" /\ calls[s].attempts = 3
                                    /\ calls[s].cached = Undefined)
          => /\ ResponseOk(s) =>
                  /\ calls'[s].status = "fulfilled"
                  /\ calls'[s].src = "network"
                  /\ calls'[s].value = cache'[calls[s].endpoint].data
             /\ ResponseFail(s) =>
                  /\ calls'[s].pc = "done"
                  /\ calls'[s].status = "rejected"
                  /\ calls'[s].error = "HTTP 500"
             /\ calls'[s].attempts <= 3]_vars

C6_Witness ==
    \E s \in Callers :
        /\ calls[s].pc = "done"
        /\ calls[s].status = "fulfilled"
        /\ calls[s].src = "network"
        /\ calls[s].attempts = 3

(* C7: a call makes at most 3 attempts, stops at the first success, waits  *)
(* 1000 ms after the first failure and 2000 ms after the second, and does  *)
(* not wait after its last failure.                                        *)
C7_RetrySchedule ==
    /\ [](\A s \in Callers :
            /\ calls[s].attempts <= 3
            /\ calls[s].waits \in {<<>>, <<1000>>, <<1000, 2000>>}
            /\ calls[s].pc = "fetching" => Len(calls[s].waits) = calls[s].attempts - 1
            /\ calls[s].pc = "backoff" => Len(calls[s].waits) = calls[s].attempts
            /\ (calls[s].pc = "done" /\ calls[s].attempts > 0)
                   => Len(calls[s].waits) = calls[s].attempts - 1)
    /\ [][\A s \in Callers :
            /\ (calls[s].pc = "fetching" /\ calls'[s].pc = "backoff")
                   => calls'[s].due = now' + calls'[s].waits[Len(calls'[s].waits)]
            /\ (calls[s].pc = "backoff" /\ calls'[s] # calls[s])
                   => /\ now' = calls[s].due
                      /\ calls'[s].pc = "fetching"
                      /\ calls'[s].attempts = calls[s].attempts + 1
            /\ ResponseOk(s) => calls'[s].pc = "done"]_vars

C7_Witness ==
    \E s \in Callers :
        /\ calls[s].pc = "done"
        /\ calls[s].attempts = 3
        /\ calls[s].waits = <<1000, 2000>>

----------------------------------------------------------------------------
(* Properties of DataService.loadAllData *)

ArrayFields == {"cities", "predictions", "historical", "realtime"}

(* C8: loadAllData never rejects; a field whose call rejected holds its    *)
(* default ([] for the four lists, all counters 0 for metrics,             *)
(* {status: 'offline'} for health) and a field whose call resolved holds   *)
(* that call's value.                                                      *)
C8_LoadNeverRejects ==
    /\ load.status # "rejected"
    /\ load.pc = "done" =>
          /\ load.status = "fulfilled"
          /\ \A f \in LoadFields :
                IF calls[f].status = "fulfilled"
                THEN load.result[f] = calls[f].value
                ELSE /\ calls[f].status = "rejected"
                     /\ f \in ArrayFields =>
                           load.result[f] = [json |-> "array", len |-> 0, rev |-> 0]
                     /\ f = "metrics" =>
                           /\ load.result[f].totalPredictions = 0
                           /\ load.result[f].accuracy = 0
                           /\ load.result[f].avgResponseTime = 0
                           /\ load.result[f].activeSegments = 0
                           /\ load.result[f].citiesMonitored = 0
                     /\ f = "health" =>
                           load.result[f] = [json |-> "object", status |-> "offline"]

C8_Witness ==
    /\ load.pc = "done"
    /\ load.status = "fulfilled"
    /\ calls["metrics"].status = "rejected"
    /\ calls["health"].status = "rejected"
    /\ \E f \in ArrayFields : calls[f].status = "rejected"
    /\ \E f \in ArrayFields : calls[f].status = "fulfilled"

(* C9: loadAllData makes all six calls (each issuing its first request or  *)
(* settling from the cache) in the step that starts it; while it waits, a  *)
(* step of one call changes no other call; it resolves as soon as, and     *)
(* only when, all six have settled.                                        *)
C9_LoadStartsAllSix ==
    /\ [][(load.pc = "idle" /\ load'.pc = "pending") =>
            \A f \in LoadFields :
               /\ calls'[f].pc \in {"fetching", "done"}
               /\ calls'[f].startedAt = now
               /\ calls'[f].pc = "fetching" =>
                     calls'[f].attempts = 1 /\ calls'[f].due >= now
               /\ calls'[f].pc = "done" => calls'[f].src = "cache"]_vars
    /\ [][(load.pc = "pending" /\ load'.pc = "pending") =>
            \A f \in LoadFields, g \in LoadFields :
               (f # g /\ calls'[f] # calls[f]) => calls'[g] = calls[g]]_vars
    /\ [][LoadReady => load'.pc = "done"]_vars
    /\ [](load.pc = "done" => \A f \in LoadFields : calls[f].pc = "done")

C9_Witness ==
    /\ load.pc = "pending"
    /\ \E f \in LoadFields, g \in LoadFields :
          /\ calls[f].pc = "backoff"
          /\ calls[g].pc = "done"
          /\ calls[g].src = "network"
          /\ calls[g].attempts = 1
          /\ calls[g].startedAt = calls[f].startedAt

----------------------------------------------------------------------------
(* Properties of RealTimeManager *)

TimersOf(key) == {t \in timers : t.key = key}

(* C10: every stream key has at most one active timer, and right after a   *)
(* subscribe for a key that key has exactly one.                           *)
C10_OneTimerPerKey ==
    /\ [](\A k \in StreamKeys : Cardinality(TimersOf(k)) <= 1)
    /\ [][\A k \in StreamKeys :
            (handles'.made = handles.made + 1
               /\ \E cb \in Callbacks :
                     handles'.live[<<k, cb>>] = handles.live[<<k, cb>>] + 1)
            => Cardinality({t \in timers' : t.key = k}) = 1]_vars

C10_Witness ==
    \E k \in StreamKeys :
        /\ handles.live[<<k, "f">>] + handles.live[<<k, "g">>] >= 2
        /\ Cardinality(TimersOf(k)) = 1

(* The two states of a stream key (spec: state machine per streamKey).     *)
Inactive(k) ==
    /\ k \notin DOMAIN intervals
    /\ k \notin DOMAIN subscribers
    /\ TimersOf(k) = {}

Active(k) ==
    /\ k \in DOMAIN intervals
    /\ k \in DOMAIN subscribers
    /\ Len(subscribers[k]) >= 1
    /\ TimersOf(k) = {t \in timers : t.id = intervals[k]}
    /\ Cardinality(TimersOf(k)) = 1

(* C11: in every reachable state a stream key is registered in the timer   *)
(* registry exactly when it has a non-empty subscriber set: each key is    *)
(* either Inactive (no entry, no timer) or Active (one timer, at least one *)
(* subscriber), and every running timer belongs to a registered key.       *)
C11_TimerIffSubscribers ==
    /\ \A k \in AllKeys : Inactive(k) \/ Active(k)
    /\ DOMAIN intervals \subseteq AllKeys
    /\ DOMAIN subscribers \subseteq AllKeys
    /\ \A t \in timers : t.key \in DOMAIN intervals

(* A key is back to Inactive after its last subscriber left, while the     *)
(* other key is Active.                                                    *)
C11_Witness ==
    \E k \in StreamKeys, j \in StreamKeys :
        /\ Inactive(k)
        /\ \E cb \in Callbacks : <<k, cb>> \in handles.spent
        /\ Active(j)

(* C12: when the unsubscribe function of the last remaining callback of a  *)
(* key is invoked, the key's timer is cleared and both registry entries    *)
(* are removed; a timer fires only for an Active key, so no further tick   *)
(* fires for the key that was left; a later subscribe for the key creates  *)
(* a new timer with the interval passed to that subscribe.                 *)
C12_LastUnsubscribeClears ==
    [][\A k \in AllKeys :
         /\ \A cb \in Callbacks, again \in BOOLEAN :
               (Unsubscribe(k, cb, again) /\ Range(CurrentSubs(k)) = {cb})
               => Inactive(k)'
         /\ \A t \in timers : (t.key = k /\ TimerFires(t)) => Active(k)
         /\ \A cb \in Callbacks, every \in Intervals :
               (Subscribe(k, cb, every) /\ Inactive(k))
               => /\ Active(k)'
                  /\ intervals'[k] \notin {t.id : t \in timers}
                  /\ \A t \in timers' :
                        t.key = k => t.every = every /\ t.due = now + every
      ]_vars

(* A key was left by its last subscriber and then subscribed again, at the *)
(* slower rate: it runs its second timer.                                  *)
C12_Witness ==
    \E k \in StreamKeys :
        /\ Active(k)
        /\ \E cb \in Callbacks : <<k, cb>> \in handles.spent
        /\ handles.made = 2
        /\ intervals[k] = 2
        /\ \A t \in TimersOf(k) : t.every = 15000

EveryOf(ts, k) == {t.every : t \in {u \in ts : u.key = k}}

(* C13: the interval of a key's timer is the intervalMs of the subscribe   *)
(* call that activated the key; while the key stays Active, a later        *)
(* subscribe with any interval and the unsubscribe of a callback that      *)
(* leaves others registered keep the same timer, at the same interval.     *)
C13_FirstIntervalWins ==
    [][\A k \in AllKeys :
         /\ \A cb \in Callbacks, every \in Intervals :
               (Subscribe(k, cb, every) /\ Inactive(k))
               => EveryOf(timers', k) = {every}
         /\ \A cb \in Callbacks, every \in Intervals :
               (Subscribe(k, cb, every) /\ Active(k))
               => /\ intervals'[k] = intervals[k]
                  /\ timers' = timers
         /\ \A cb \in Callbacks, again \in BOOLEAN :
               (Unsubscribe(k, cb, again) /\ Active(k)
                  /\ Range(CurrentSubs(k)) # {cb})
               => /\ intervals'[k] = intervals[k]
                  /\ timers' = timers
         /\ (Active(k) /\ k \in DOMAIN intervals'
               /\ intervals'[k] = intervals[k])
               => /\ EveryOf(timers', k) = EveryOf(timers, k)
                  /\ Cardinality(EveryOf(timers', k)) = 1
      ]_vars

(* Two callbacks are subscribed to a key; the first asked for 5000 ms and  *)
(* the second for 15000 ms; the key's only timer runs every 5000 ms.       *)
C13_Witness ==
    \E k \in StreamKeys :
        /\ Active(k)
        /\ Len(subscribers[k]) = 2
        /\ handles.made = 2
        /\ handles.asked = 15000
        /\ EveryOf(timers, k) = {5000}

(* The callback invocations logged by the current step.                    *)
NewDeliveries == SubSeq(delivered', Len(delivered) + 1, Len(delivered'))

(* C14: on a tick that obtained data for a key, every callback registered  *)
(* for that key is invoked with the data on that same tick, also when one  *)
(* of the callbacks throws.                                                *)
C14_EveryCallbackInvoked ==
    [][delivered' # delivered
         => LET key == NewDeliveries[1].key IN
            {NewDeliveries[n].cb : n \in 1..Len(NewDeliveries)}
               = Range(CurrentSubs(key))
      ]_vars

(* Both registries are empty: the hub as stopAll leaves it.                *)
Stopped == intervals = <<>> /\ subscribers = <<>>

(* C15: stopAll leaves the timer registry and the subscriber registry      *)
(* empty and no timer running; from then on, until the next subscribe, no  *)
(* timer fires and no callback is invoked, not even by a tick whose fetch  *)
(* was in flight when stopAll was called.                                  *)
C15_StopAllSilences ==
    [][/\ StopAll => (Stopped' /\ timers' = {})
       /\ (Stopped /\ handles'.made = handles.made)
            => /\ Stopped'
               /\ timers' = {}
               /\ ticks' = ticks
               /\ delivered' = delivered
      ]_vars

(* stopAll was called while the fetch of a tick was in flight; the fetch   *)
(* has completed since (the cache holds its response) and nobody was       *)
(* invoked with it.                                                        *)
C15_Witness ==
    /\ Stopped
    /\ timers = {}
    /\ handles.made > 0
    /\ handles.spent = {}
    /\ ticks = 1
    /\ cache # <<>>
    /\ \A s \in TickSlots : calls[s].pc = "idle"
    /\ delivered = <<>>

(* C16: once stopAll has returned, and until the next subscribe, no new    *)
(* network request is started for the hub, not even by a tick that was in  *)
(* its retry loop when stopAll was called.                                 *)
C16_NoRequestAfterStopAll ==
    [][(Stopped /\ handles.made > 0 /\ handles'.made = handles.made)
         => \A s \in TickSlots :
               ~(calls'[s].pc = "fetching"
                   /\ calls'[s].attempts > calls[s].attempts)
      ]_vars

(* The DataService call of the tick in slot s rejects in this step: its    *)
(* last attempt fails and the call found no cache entry when it started.   *)
TickRejects(s) ==
    /\ s \in TickSlots
    /\ ResponseFail(s)
    /\ IsLastAttempt(calls[s].i, calls[s].retries)
    /\ calls[s].cached = Undefined

(* C17: a tick whose DataService call rejects is caught inside the hub: no *)
(* callback is invoked for it, the error is logged and goes no further     *)
(* (the timer callback ends normally), and the timers and subscriber sets  *)
(* of all keys are left as they were, so later ticks keep firing.          *)
C17_RejectedTickCaught ==
    [][\A s \in TickSlots :
         TickRejects(s)
         => /\ delivered' = delivered
            /\ Len(errors') = Len(errors) + 1
            /\ errors'[Len(errors')].key = ticking[s].key
            /\ errors'[Len(errors')].tick = ticking[s].tick
            /\ errors'[Len(errors')].error \in FailureErrors
            /\ calls'[s] = IdleCall
            /\ timers' = timers
            /\ intervals' = intervals
            /\ subscribers' = subscribers
      ]_vars

(* The first tick of a key was rejected and logged; the key is still       *)
(* Active and its second tick delivered data to a subscriber.              *)
C17_Witness ==
    \E k \in PollKeys :
        /\ Active(k)
        /\ \E n \in 1..Len(errors) :
              /\ errors[n].key = k
              /\ errors[n].tick = 1
              /\ errors[n].error = "HTTP 500"
        /\ \E n \in 1..Len(delivered) :
              /\ delivered[n].key = k
              /\ delivered[n].tick = 2
              /\ delivered[n].value = Body(TickEndpoint(k), 1)

(* C18: a tick of a recognised key calls the DataService method mapped to  *)
(* the key exactly once, whatever the number of subscribers                *)
(* (getPredictions(50), getMetrics, getRealtimeTraffic, getHealthStatus);  *)
(* when the call resolves and no callback throws, each callback registered *)
(* for the key is invoked exactly once, with the resolved value.           *)
C18_OneCallOneDelivery ==
    [][/\ \A t \in timers :
            (TimerFires(t) /\ t.key \in Recognised)
            => LET url == CASE t.key = "predictions" -> PredictionsUrl("50", "")
                            [] t.key = "metrics" -> GetMetricsUrl
                            [] t.key = "realtime" -> GetRealtimeTrafficUrl
                            [] t.key = "health" -> GetHealthStatusUrl
                   begun == {s \in TickSlots : calls'[s] # calls[s]}
               IN  IF IsFresh(CacheGet(cache, url), now')
                   THEN /\ begun = {}
                        /\ errors' = errors
                             => NewDeliveries =
                                  DeliveryLog(CurrentSubs(t.key), t.key, ticks',
                                              CacheGet(cache, url).data)
                   ELSE /\ Cardinality(begun) = 1
                        /\ \A s \in begun :
                              /\ calls[s] = IdleCall
                              /\ calls'[s].endpoint = url
                              /\ calls'[s].pc = "fetching"
                              /\ calls'[s].attempts = 1
                              /\ ticking'[s].key = t.key
                        /\ delivered' = delivered
       /\ \A s \in TickSlots :
            (calls[s].pc = "fetching" /\ calls'[s] = IdleCall /\ errors' = errors)
            => LET e == calls[s].endpoint
                   value == IF e \in DOMAIN fetched' /\ fetched'[e].at = now'
                            THEN fetched'[e].value
                            ELSE calls[s].cached.data
               IN  NewDeliveries =
                     DeliveryLog(CurrentSubs(ticking[s].key), ticking[s].key,
                                 ticking[s].tick, value)
      ]_vars

(* The key "health" has ticked twice; the first tick fetched the response  *)
(* and the second found it fresh in the cache; on each tick the callbacks  *)
(* f and g were each invoked once with it.                                 *)
C18_Witness ==
    /\ errors = <<>>
    /\ ticks = 2
    /\ Len(delivered) = 4
    /\ \A tick \in 1..2, cb \in Callbacks :
          Cardinality({n \in 1..4 :
                         /\ delivered[n].cb = cb
                         /\ delivered[n].tick = tick
                         /\ delivered[n].key = "health"
                         /\ delivered[n].value = Body(GetHealthStatusUrl, 1)}) = 1
    /\ \E e \in DOMAIN fetched : fetched[e].at = 5100

(* C19: invoking an unsubscribe function cancels nothing: the calls in     *)
(* flight and the cache are untouched, and a response that arrives later   *)
(* is written to the cache whoever is still subscribed.  The callback is   *)
(* out of the key's subscriber set when its unsubscribe function returns,  *)
(* and only members of the current subscriber set are ever invoked, so it  *)
(* is not invoked again unless it is subscribed again.                     *)
C19_NoLateDelivery ==
    [][/\ \A k \in AllKeys, cb \in Callbacks, again \in BOOLEAN :
            Unsubscribe(k, cb, again)
            => /\ cb \notin Range(MapGet(subscribers', k, <<>>))
               /\ calls' = calls
               /\ cache' = cache
       /\ \A n \in 1..Len(NewDeliveries) :
            NewDeliveries[n].cb \in Range(CurrentSubs(NewDeliveries[n].key))
       /\ \A s \in TickSlots :
            LET e == calls[s].endpoint IN
            (calls[s].pc = "fetching" /\ calls'[s] = IdleCall
               /\ e \in DOMAIN fetched' /\ fetched'[e].at = now')
            => /\ CacheHas(cache', e)
               /\ CacheGet(cache', e).data = fetched'[e].value
               /\ CacheGet(cache', e).timestamp = now'
      ]_vars

(* The only subscriber of "metrics" unsubscribed while the fetch of the    *)
(* key's tick was in flight: the response is in the cache and nobody was   *)
(* invoked with it.                                                        *)
C19_Witness ==
    /\ Inactive("metrics")
    /\ handles.made = 1
    /\ handles.spent = {<<"metrics", "f">>}
    /\ ticks = 1
    /\ CacheHas(cache, GetMetricsUrl)
    /\ CacheGet(cache, GetMetricsUrl).timestamp = 5100
    /\ delivered = <<>>
    /\ errors = <<>>

(* C20: every value a subscriber callback of a recognised key was invoked  *)
(* with is a body the backend had answered with success for the endpoint   *)
(* of that key; it is never undefined nor one of the empty defaults.       *)
C20_OnlyServedValues ==
    \A n \in 1..Len(delivered) :
        /\ delivered[n].key \in Recognised
        /\ [endpoint |-> TickEndpoint(delivered[n].key),
            value |-> delivered[n].value] \in served
        /\ delivered[n].value \notin {Undefined, EmptyArray, OfflineHealth}

(* The second tick of a slowly polled key found its cache entry expired    *)
(* and all three attempts failed: the subscriber was invoked with the      *)
(* stale entry, the response of the first tick.                            *)
C20_Witness ==
    \E k \in PollKeys :
        /\ \A s \in TickSlots : calls[s].pc = "idle"
        /\ errors = <<>>
        /\ TickEndpoint(k) \in DOMAIN fetched
        /\ fetched[TickEndpoint(k)].at = 400100
        /\ now = 803300
        /\ \E n \in 1..Len(delivered) :
              /\ delivered[n].key = k
              /\ delivered[n].tick = 2
              /\ delivered[n].value = fetched[TickEndpoint(k)].value

----------------------------------------------------------------------------
(* Properties of the response cache *)

(* The entries of the cache written by the current step.                   *)
Written == {e \in DOMAIN cache' : cache'[e] # CacheGet(cache, e)}

(* C21: the cache maps each key to one entry; an entry is written with the *)
(* time of the write, no entry is dated in the future, and so the          *)
(* timestamp stored for a key never decreases from one write to the next,  *)
(* whatever the interleaving of the concurrent calls for that key.         *)
C21_TimestampsMonotone ==
    /\ [](\A e \in DOMAIN cache :
            /\ DOMAIN cache[e] = {"json", "data", "timestamp"}
            /\ cache[e].timestamp <= now)
    /\ [][/\ \A e \in Written : cache'[e].timestamp = now'
          /\ \A e \in DOMAIN cache \cap DOMAIN cache' :
                cache'[e].timestamp >= cache[e].timestamp]_vars

(* Two calls for one endpoint started together; one was answered at once,  *)
(* the other after a failed attempt and its backoff: the entry was written *)
(* twice and carries the time of the second write.                         *)
C21_Witness ==
    \E e \in DOMAIN cache :
        /\ calls["a"].endpoint = e /\ calls["b"].endpoint = e
        /\ calls["a"].src = "network" /\ calls["b"].src = "network"
        /\ calls["a"].startedAt = 0 /\ calls["b"].startedAt = 0
        /\ calls["a"].attempts = 1 /\ calls["b"].attempts = 2
        /\ cache[e].timestamp = 1200

(* The call of slot s receives a successful response in this step.         *)
Succeeds(s) ==
    /\ calls[s].pc = "fetching"
    /\ calls'[s].pc = "done"
    /\ calls'[s].src = "network"

(* C22: the cache is written only by a successful fetch, and only under    *)
(* the key of that fetch.  A step without one (a failed attempt, a call    *)
(* that rejects, a call served from the fresh cache, a call that returns   *)
(* the stale fallback) leaves every entry as it was; the stale fallback    *)
(* does not refresh the timestamp, and a call that finds no fresh entry    *)
(* goes to the network.                                                    *)
C22_WrittenOnlyOnSuccess ==
    [][/\ (\A s \in Slots : ~Succeeds(s))
            => \/ cache' = cache
               \/ cache' = <<>> /\ calls' = calls
       /\ \A s \in Slots : Succeeds(s) => Written \subseteq {calls[s].endpoint}
       /\ \A s \in Callers :
            (calls'[s] # calls[s] /\ calls[s].pc \in {"idle", "done"}
               /\ ~IsFresh(CacheGet(cache, calls'[s].endpoint), now))
            => /\ calls'[s].pc = "fetching"
               /\ calls'[s].attempts = 1
      ]_vars

(* A call found its entry expired, failed three times and returned the     *)
(* stale value: the entry still carries the timestamp of the first fetch.  *)
C22_Witness ==
    \E s \in Callers :
        /\ calls[s].pc = "done"
        /\ calls[s].src = "stale"
        /\ calls[s].attempts = 3
        /\ CacheGet(cache, calls[s].endpoint).timestamp = 100
        /\ CacheGet(cache, calls[s].endpoint).data = calls[s].value
        /\ now = 303400

(* The attempt in flight for slot s fails in this step with outcome o.     *)
FailsWith(s, o) ==
    /\ calls[s].pc = "fetching"
    /\ now' = calls[s].due
    /\ o \in backend[calls[s].endpoint].outcomes \ {"ok"}
    /\ calls'[s] = CallFailed(calls[s], ErrorOf(o), now')

(* C23: a non-2xx status (404 as well as 500), a network failure and a     *)
(* JSON parse failure are each a failed attempt: while attempts remain it  *)
(* is followed by the backoff of its position and then by another attempt, *)
(* after the last attempt of a call without cache entry it is the error    *)
(* the call rejects with, and it never writes to the cache.                *)
C23_AllFailuresRetried ==
    [][\A s \in Callers :
         /\ \A o \in Outcomes \ {"ok"} :
               FailsWith(s, o)
               => /\ cache' = cache
                  /\ IF IsLastAttempt(calls[s].i, calls[s].retries)
                     THEN calls[s].cached = Undefined
                          => /\ calls'[s].status = "rejected"
                             /\ calls'[s].error = ErrorOf(o)
                             /\ calls'[s].attempts = DefaultRetries
                     ELSE /\ calls'[s].pc = "backoff"
                          /\ calls'[s].due = now' + BackoffDelay(calls[s].i)
                          /\ calls'[s].attempts = calls[s].attempts
         /\ (calls[s].pc = "backoff" /\ calls'[s] # calls[s])
               => /\ calls'[s].pc = "fetching"
                  /\ calls'[s].attempts = calls[s].attempts + 1
      ]_vars

(* Two calls have each used all three attempts; one ended on HTTP 404, the *)
(* other on a JSON parse failure.                                          *)
C23_Witness ==
    /\ calls["a"].status = "rejected" /\ calls["b"].status = "rejected"
    /\ calls["a"].error = "HTTP 404" /\ calls["b"].error = "SyntaxError"
    /\ calls["a"].attempts = 3 /\ calls["b"].attempts = 3
    /\ calls["a"].waits = <<1000, 2000>> /\ calls["b"].waits = <<1000, 2000>>
    /\ cache = <<>>

(* getPredictions called without city, with '' and with 'all' ask for the  *)
(* same data.                                                              *)
SameCity(c, d) == c = d \/ {c, d} \subseteq {"", "all"}

(* C24: two DataService calls use the same cache entry exactly when they   *)
(* request the same path and query string.  The URLs of getPredictions     *)
(* agree exactly when the limits agree and the cities agree (no city, ''   *)
(* and 'all' being one), those of getHistoricalData exactly when the hours *)
(* agree, and no URL is shared between the two methods; a call is served   *)
(* from the cache only out of the entry stored under its own URL, and a    *)
(* response is stored only under the URL of its call.                      *)
C24_KeysDoNotCollide ==
    /\ [](/\ \A l \in Limits, m \in Limits, c \in Cities, d \in Cities :
               PredictionsUrl(l, c) = PredictionsUrl(m, d)
                  <=> (l = m /\ SameCity(c, d))
          /\ \A h \in Hours, g \in Hours :
               HistoricalUrl(h) = HistoricalUrl(g) <=> h = g
          /\ \A l \in Limits, c \in Cities, h \in Hours :
               PredictionsUrl(l, c) # HistoricalUrl(h))
    /\ [][/\ \A s \in Callers, l \in Limits, c \in Cities :
               GetPredictions(s, l, c)
               => (calls'[s].src = "cache"
                     <=> \E d \in Cities :
                            /\ SameCity(c, d)
                            /\ IsFresh(CacheGet(cache, PredictionsUrl(l, d)), now))
          /\ \A s \in Callers, h \in Hours :
               GetHistoricalData(s, h)
               => (calls'[s].src = "cache"
                     <=> IsFresh(CacheGet(cache, HistoricalUrl(h)), now))
          /\ \A s \in Callers :
               Succeeds(s)
               => \A e \in KeyEndpoints :
                     e # calls[s].endpoint
                        => CacheGet(cache', e) = CacheGet(cache, e)
         ]_vars

(* The predictions of one city and the unfiltered predictions were both    *)
(* fetched, with the same limit: the cache holds one entry for each.       *)
C24_Witness ==
    /\ DOMAIN cache = {PredictionsUrl("50", "nyc"), PredictionsUrl("50", "all")}
    /\ \A s \in Callers : calls[s].src = "network" /\ calls[s].attempts = 1
    /\ calls["a"].endpoint # calls["b"].endpoint

----------------------------------------------------------------------------
(* Properties of the unsubscribe functions *)

(* C25: while at least one subscribe call for a key has an unsubscribe     *)
(* function that was never invoked, the key's timer stays active; here for *)
(* a key that has been Active since the first subscribe of the hub.        *)
C25_TimerWhileHandleLive ==
    [][\A k \in AllKeys, cb \in Callbacks :
         (Unsubscribe(k, cb, FALSE) /\ Active(k) /\ intervals[k] = 1
            /\ \E other \in Callbacks : handles'.live[<<k, other>>] > 0)
         => Active(k)'
      ]_vars

----------------------------------------------------------------------------
(* Expiry *)

(* Caller s starts a DataService call in this step.                        *)
Begins(s) ==
    /\ s \in Callers
    /\ calls[s].pc \in {"idle", "done"}
    /\ calls'[s] # calls[s]

(* The age, at the current time, of the entry a call of this step reads.   *)
AgeFor(s) == now - cache[calls'[s].endpoint].timestamp

(* C26 as stated: an entry is expired only when its age exceeds            *)
(* cacheTimeout, so a call that finds an entry of age cacheTimeout or less *)
(* is served from the cache.                                               *)
C26_ExpiredOnlyBeyondTimeout ==
    [][\A s \in Callers :
         (Begins(s) /\ CacheHas(cache, calls'[s].endpoint)
            /\ AgeFor(s) <= cacheTimeout)
         => /\ calls'[s].src = "cache"
            /\ calls'[s].attempts = 0
      ]_vars

(* C26 amended: an entry is expired once its age reaches cacheTimeout: a   *)
(* call that finds an entry younger than cacheTimeout is served from it    *)
(* without a request, a call that finds an entry of age cacheTimeout or    *)
(* more makes a network attempt and keeps the entry as its fallback.       *)
(* Expiry removes nothing: an entry leaves the cache only by clearCache.   *)
C26_ExpiredFromTimeout ==
    [][/\ \A s \in Callers :
            (Begins(s) /\ CacheHas(cache, calls'[s].endpoint))
            => IF AgeFor(s) < cacheTimeout
               THEN /\ calls'[s].src = "cache"
                    /\ calls'[s].attempts = 0
                    /\ calls'[s].value = cache[calls'[s].endpoint].data
               ELSE /\ calls'[s].pc = "fetching"
                    /\ calls'[s].attempts = 1
                    /\ calls'[s].cached = cache[calls'[s].endpoint]
       /\ \/ DOMAIN cache \subseteq DOMAIN cache'
          \/ cache' = <<>> /\ calls' = calls /\ now' = now
      ]_vars

(* A call started when the entry of its endpoint was exactly cacheTimeout  *)
(* old: it is waiting for the network, the entry kept as fallback and      *)
(* still in the cache.                                                     *)
C26_Witness ==
    \E s \in Callers :
        /\ calls[s].pc = "fetching"
        /\ calls[s].cached # Undefined
        /\ calls[s].startedAt - calls[s].cached.timestamp = cacheTimeout
        /\ CacheGet(cache, calls[s].endpoint) = calls[s].cached

(* C27: invoking an unsubscribe function that was already invoked changes  *)
(* nothing, even when the same callback has been subscribed to the same    *)
(* key again in between: the later subscription stays registered and the   *)
(* timer of the key keeps running.                                         *)
C27_SecondUnsubscribeNoEffect ==
    [][\A k \in AllKeys, cb \in Callbacks :
         Unsubscribe(k, cb, TRUE)
         => UNCHANGED <<subscribers, intervals, timers>>
      ]_vars

----------------------------------------------------------------------------
(* Overlapping work *)

(* The timer callback in slot s is still awaiting its DataService call.    *)
Pending(s) == calls[s].pc \in {"fetching", "backoff"}

(* C28: at most one DataService call per stream key is pending from the    *)
(* hub: no two timer callbacks of the same key await a call at once.       *)
C28_OneFetchPerKey ==
    \A s1, s2 \in TickSlots :
        (s1 # s2 /\ Pending(s1) /\ Pending(s2))
        => ticking[s1].key # ticking[s2].key

(* C29: the cache never regresses to an older request's data: a response   *)
(* written over an entry comes from a request issued no earlier than the   *)
(* request whose response the entry held.                                  *)
C29_NoRegression ==
    [][\A e \in DOMAIN fetched \cap DOMAIN fetched' :
         fetched'[e].issued >= fetched[e].issued
      ]_vars

(* C30: a call that resolves with the stale fallback returns the value     *)
(* the cache holds for its endpoint at the moment of return, even if the   *)
(* entry was overwritten or cleared while the call was retrying.           *)
C30_FallbackIsCurrentEntry ==
    [][\A s \in Callers :
         (calls[s].pc = "fetching" /\ calls'[s].pc = "done"
            /\ calls'[s].src = "stale")
         => /\ CacheHas(cache', calls'[s].endpoint)
            /\ calls'[s].value = cache'[calls'[s].endpoint].data
      ]_vars

----------------------------------------------------------------------------
(* Ticks of old timers and the order of deliveries *)

(* The timer whose callback occupies slot s has been cleared.              *)
TornDown(s) == ticking[s].timer \notin {t.id : t \in timers}

(* C31: a torn-down timer delivers nothing: when the call awaited by a     *)
(* tick of a cleared timer settles, no callback is invoked, not even one   *)
(* registered by a later subscribe that started a new timer for the key.   *)
C31_TornDownTimerSilent ==
    [][\A s \in TickSlots :
         (Pending(s) /\ TornDown(s) /\ calls'[s] = IdleCall)
         => delivered' = delivered
      ]_vars

(* C32: in-order delivery per key: a subscriber is never invoked with the  *)
(* result of an earlier tick of a key after it has been invoked with the   *)
(* result of a later tick of that key.                                     *)
C32_InOrderDelivery ==
    \A i, j \in 1..Len(delivered) :
        (i < j /\ delivered[i].key = delivered[j].key
               /\ delivered[i].cb = delivered[j].cb)
        => delivered[i].tick <= delivered[j].tick

----------------------------------------------------------------------------
(* Termination *)

(* C33: every DataService call terminates: a call that is waiting for a    *)
(* response or for a backoff eventually resolves or rejects, having made   *)
(* at most 3 attempts and waited at most 2 backoffs, and a pending         *)
(* loadAllData eventually resolves.                                        *)
C33_CallsTerminate ==
    /\ \A s \in LiveSlots :
          (calls[s].pc \in {"fetching", "backoff"}) ~> (calls[s].pc = "done")
    /\ (load.pc = "pending") ~> (load.pc = "done" /\ load.status = "fulfilled")
    /\ [](\A s \in LiveSlots :
            calls[s].attempts <= 3 /\ Len(calls[s].waits) <= 2)

(* loadAllData has resolved after one of its calls used all three attempts *)
(* and both backoffs, and a direct call has rejected after three attempts. *)
C33_Witness ==
    /\ load.pc = "done"
    /\ \E f \in LoadFields :
          /\ calls[f].attempts = 3
          /\ calls[f].waits = <<1000, 2000>>
    /\ \E s \in Callers :
          /\ calls[s].pc = "done"
          /\ calls[s].status = "rejected"
          /\ calls[s].attempts = 3

----------------------------------------------------------------------------
(* Frame of subscribe and unsubscribe *)

(* Everything the hub holds for the keys other than k, and the cache, is   *)
(* the same after the step.                                                *)
OthersUntouched(k) ==
    /\ \A o \in AllKeys \ {k} :
          /\ MapGet(subscribers', o, <<>>) = MapGet(subscribers, o, <<>>)
          /\ MapGet(intervals', o, 0) = MapGet(intervals, o, 0)
          /\ {t \in timers' : t.key = o} = {t \in timers : t.key = o}
    /\ cache' = cache

(* C34: key independence: subscribe and unsubscribe for one stream key     *)
(* leave the timer, the interval and the subscriber set of every other     *)
(* key unchanged, and neither touches the cache.                           *)
C34_KeyIndependence ==
    [][/\ \A k \in AllKeys, cb \in Callbacks, every \in Intervals :
            Subscribe(k, cb, every) => OthersUntouched(k)
       /\ \A k \in AllKeys, cb \in Callbacks, again \in BOOLEAN :
            Unsubscribe(k, cb, again) => OthersUntouched(k)
      ]_vars

(* Two keys were subscribed; the only subscriber of "metrics" has left and *)
(* "layout" still has its subscriber and its timer.                        *)
C34_Witness ==
    /\ handles.made = 2
    /\ handles.spent = {<<"metrics", "f">>}
    /\ Inactive("metrics")
    /\ Active("layout")
    /\ \E t \in timers : t.key = "layout"

----------------------------------------------------------------------------
(* Keys the timer callback does not recognise *)

Unrecognised == AllKeys \ Recognised

(* C35: subscribe with a key other than predictions, metrics, realtime or  *)
(* health registers the callback and starts one timer, under the same      *)
(* timer/subscriber invariant and teardown as any key, but the ticks of    *)
(* that timer call no DataService method, issue no request and invoke no   *)
(* callback.                                                               *)
C35_UnrecognisedKeys ==
    /\ [](\A k \in Unrecognised : Inactive(k) \/ Active(k))
    /\ [][\A k \in Unrecognised, cb \in Callbacks, every \in Intervals :
            Subscribe(k, cb, every)
            => /\ cb \in Range(MapGet(subscribers', k, <<>>))
               /\ Active(k)'
       ]_vars
    /\ [][\A t \in timers :
            (t.key \in Unrecognised /\ TimerFires(t))
            => /\ calls' = calls
               /\ ticking' = ticking
               /\ cache' = cache
               /\ delivered' = delivered
               /\ errors' = errors
       ]_vars

(* Only "layout" was subscribed, at time 0, and its timer has fired once:  *)
(* the subscription stands, nothing was requested and nobody was invoked.  *)
C35_Witness ==
    /\ Active("layout")
    /\ Inactive("metrics")
    /\ handles.spent = {}
    /\ ticks = 1
    /\ \E t \in timers : t.key = "layout" /\ t.due = 2 * t.every /\ now = t.every
    /\ delivered = <<>>
    /\ \A s \in Slots : calls[s].pc = "idle"

----------------------------------------------------------------------------
(* clearCache and getCacheInfo *)

(* C36: clearCache removes every entry: getCacheInfo then reports no keys  *)
(* and totalSize 0, and a call made while the cache is empty issues a      *)
(* request and has no stale fallback.  In every state totalSize is the     *)
(* number of keys listed, and the keys are exactly those with a successful *)
(* fetch since the last clearCache.                                        *)
C36_ClearCacheEmpties ==
    /\ [](/\ GetCacheInfo(cache).totalSize = Cardinality(GetCacheInfo(cache).keys)
          /\ GetCacheInfo(cache).keys = DOMAIN fetched)
    /\ [][ClearCache => GetCacheInfo(cache') = [keys |-> {}, totalSize |-> 0]]_vars
    /\ [][\A s \in Callers :
            /\ (Begins(s) /\ GetCacheInfo(cache).totalSize = 0)
                 => /\ calls'[s].pc = "fetching"
                    /\ calls'[s].attempts = 1
                    /\ calls'[s].cached = Undefined
            /\ (calls[s].pc = "fetching" /\ calls'[s].pc = "done"
                   /\ calls[s].cached = Undefined)
                 => calls'[s].src # "stale"
       ]_vars

(* Two calls were issued at time 0; the first response was cached and the  *)
(* cache then cleared while the second request was in flight; its response *)
(* re-created an entry, the only one getCacheInfo lists.                   *)
C36_Witness ==
    \E a \in Callers, b \in Callers :
        /\ calls[a].pc = "done" /\ calls[a].src = "network"
        /\ calls[a].attempts = 1 /\ calls[a].startedAt = 0
        /\ ~CacheHas(cache, calls[a].endpoint)
        /\ calls[b].pc = "done" /\ calls[b].src = "network"
        /\ CacheHas(cache, calls[b].endpoint)
        /\ fetched[calls[b].endpoint].issued = 0
        /\ GetCacheInfo(cache) = [keys |-> {calls[b].endpoint}, totalSize |-> 1]

====
